---- MODULE Spec2Model ----
(***************************************************************************)
(* Model of beacon_node/eth2-libp2p/src/behaviour.rs: the libp2p network   *)
(* behaviour of the beacon node (outward event queue, the event-injection  *)
(* handlers, poll, subscribe / send_rpc / publish) and the SSZ encoding of *)
(* PubsubMessage.                                                          *)
(***************************************************************************)
EXTENDS Integers, Sequences, FiniteSets, TLC

(***************************************************************************)
(* Bounds of the model.                                                    *)
(***************************************************************************)
\* longest byte sequence handed to the decoder in SpecCodec
MaxBytesLen == 6
\* largest starting offset handed to the decoder in SpecCodec
MaxIndex == 1
\* longest listen_addrs list an identify event carries
MaxAddrLen == 22
\* number of outward events the handlers may enqueue in one behaviour of Spec
MaxEnqueued == 2
\* number of outward events the handlers may enqueue in one behaviour of SpecQueue
MaxQueueRun == 3
\* number of messages encoded back to back into one byte sequence in SpecCodec
MaxPacked == 2

(***************************************************************************)
(* Program constants.                                                      *)
(***************************************************************************)
\* info.listen_addrs.len() > 20 / truncate(20)
MAX_LISTEN_ADDRS == 20
\* the discriminants written by ssz_append and matched by ssz_decode
BLOCK_ID == 0
ATTESTATION_ID == 1
\* bytes of a u32 discriminant
U32_BYTES == 4

(***************************************************************************)
(* SSZ primitives (crate ssz) and the payload types (crate types).         *)
(* A decode result is Ok((value, index)) or Err(e); maxread is the highest *)
(* 1-based position of the input the decoder looked at (0: none).          *)
(***************************************************************************)
NoValue == [variant |-> "None"]

Ok(v, i, r) == [ok |-> TRUE, value |-> v, index |-> i, err |-> "None", maxread |-> r]

Err(e, r) == [ok |-> FALSE, value |-> NoValue, index |-> 0, err |-> e, maxread |-> r]

\* bytes[i] of a Rust slice (0-based i); position i+1 of the TLA+ sequence
ByteAt(bytes, i) == IF i + 1 \in DOMAIN bytes THEN bytes[i + 1] ELSE 0

\* <u32 as Encodable>::ssz_append: 4 bytes, little endian
u32_ssz_append(v) ==
    << v % 256, (v \div 256) % 256, (v \div 65536) % 256, (v \div 16777216) % 256 >>

\* <u32 as Decodable>::ssz_decode
u32_ssz_decode(bytes, index) ==
    IF Len(bytes) >= index + U32_BYTES
    THEN Ok(ByteAt(bytes, index) + 256 * ByteAt(bytes, index + 1)
              + 65536 * ByteAt(bytes, index + 2) + 16777216 * ByteAt(bytes, index + 3),
            index + U32_BYTES, index + U32_BYTES)
    ELSE Err("TooShort", 0)

\* BeaconBlock payload: stands for the block by its slot, a 2-byte integer
BeaconBlock(slot) == [slot |-> slot]

BeaconBlock_ssz_append(block) == << block.slot % 256, (block.slot \div 256) % 256 >>

BeaconBlock_ssz_decode(bytes, index) ==
    IF Len(bytes) >= index + 2
    THEN Ok(BeaconBlock(ByteAt(bytes, index) + 256 * ByteAt(bytes, index + 1)),
            index + 2, index + 2)
    ELSE Err("TooShort", 0)

\* Attestation payload: stands for the attestation by one boolean field
Attestation(custody) == [custody_bit |-> custody]

Attestation_ssz_append(att) == << IF att.custody_bit THEN 1 ELSE 0 >>

Attestation_ssz_decode(bytes, index) ==
    IF index >= Len(bytes)
    THEN Err("TooShort", 0)
    ELSE IF ByteAt(bytes, index) = 0 THEN Ok(Attestation(FALSE), index + 1, index + 1)
    ELSE IF ByteAt(bytes, index) = 1 THEN Ok(Attestation(TRUE), index + 1, index + 1)
    ELSE Err("Invalid", index + 1)

(***************************************************************************)
(* PubsubMessage and its SSZ encoding.                                     *)
(***************************************************************************)
Block(b) == [variant |-> "Block", payload |-> b]

AttestationMsg(a) == [variant |-> "Attestation", payload |-> a]

\* the higher of two read marks
MaxRead(a, b) == IF a > b THEN a ELSE b

\* ssz_append writing the discriminant of Block for both variants
PubsubMessage_ssz_append_SameTag(m) ==
    IF m.variant = "Block"
    THEN u32_ssz_append(BLOCK_ID) \o BeaconBlock_ssz_append(m.payload)
    ELSE u32_ssz_append(BLOCK_ID) \o Attestation_ssz_append(m.payload)

\* impl Encodable for PubsubMessage: ssz_append, as the bytes appended to the stream
PubsubMessage_ssz_append(m) ==
    IF m.variant = "Block"
    THEN u32_ssz_append(BLOCK_ID) \o BeaconBlock_ssz_append(m.payload)
    ELSE u32_ssz_append(ATTESTATION_ID) \o Attestation_ssz_append(m.payload)

\* ssz::ssz_encode(&message): a fresh stream, ssz_append, drain
ssz_encode(m) == PubsubMessage_ssz_append(m)

\* the `?` on the payload decoder, then Ok((PubsubMessage::X(payload), index))
WrapPayload(res, variant, tagread) ==
    IF res.ok
    THEN Ok([variant |-> variant, payload |-> res.value], res.index,
            MaxRead(tagread, res.maxread))
    ELSE Err(res.err, MaxRead(tagread, res.maxread))

\* ssz_decode with the two arms of the match exchanged
PubsubMessage_ssz_decode_SwappedArms(bytes, index) ==
    LET id == u32_ssz_decode(bytes, index)
    IN  IF ~id.ok THEN Err(id.err, id.maxread)
        ELSE IF id.value = ATTESTATION_ID
             THEN WrapPayload(BeaconBlock_ssz_decode(bytes, id.index), "Block", id.maxread)
        ELSE IF id.value = BLOCK_ID
             THEN WrapPayload(Attestation_ssz_decode(bytes, id.index), "Attestation",
                              id.maxread)
        ELSE Err("Invalid", id.maxread)

\* ssz_decode taking every discriminant but 0 for an attestation
PubsubMessage_ssz_decode_CatchAll(bytes, index) ==
    LET id == u32_ssz_decode(bytes, index)
    IN  IF ~id.ok THEN Err(id.err, id.maxread)
        ELSE IF id.value = BLOCK_ID
             THEN WrapPayload(BeaconBlock_ssz_decode(bytes, id.index), "Block", id.maxread)
        ELSE WrapPayload(Attestation_ssz_decode(bytes, id.index), "Attestation",
                         id.maxread)

\* ssz_decode going on with discriminant 0 when the discriminant cannot be read
PubsubMessage_ssz_decode_IgnoreTagError(bytes, index) ==
    LET id == u32_ssz_decode(bytes, index)
    IN  IF ~id.ok
        THEN WrapPayload(BeaconBlock_ssz_decode(bytes, index), "Block", id.maxread)
        ELSE IF id.value = BLOCK_ID
             THEN WrapPayload(BeaconBlock_ssz_decode(bytes, id.index), "Block", id.maxread)
        ELSE IF id.value = ATTESTATION_ID
             THEN WrapPayload(Attestation_ssz_decode(bytes, id.index), "Attestation",
                              id.maxread)
        ELSE Err("Invalid", id.maxread)

\* ssz_decode returning the offset that follows the discriminant
PubsubMessage_ssz_decode_TagOffset(bytes, index) ==
    LET id  == u32_ssz_decode(bytes, index)
        res == IF ~id.ok THEN Err(id.err, id.maxread)
               ELSE IF id.value = BLOCK_ID
                    THEN WrapPayload(BeaconBlock_ssz_decode(bytes, id.index), "Block",
                                     id.maxread)
               ELSE IF id.value = ATTESTATION_ID
                    THEN WrapPayload(Attestation_ssz_decode(bytes, id.index), "Attestation",
                                     id.maxread)
               ELSE Err("Invalid", id.maxread)
    IN  IF res.ok THEN [res EXCEPT !.index = id.index] ELSE res

\* impl Decodable for PubsubMessage: ssz_decode
PubsubMessage_ssz_decode(bytes, index) ==
    LET id == u32_ssz_decode(bytes, index)
    IN  IF ~id.ok THEN Err(id.err, id.maxread)
        ELSE IF id.value = BLOCK_ID
             THEN WrapPayload(BeaconBlock_ssz_decode(bytes, id.index), "Block", id.maxread)
        ELSE IF id.value = ATTESTATION_ID
             THEN WrapPayload(Attestation_ssz_decode(bytes, id.index), "Attestation",
                              id.maxread)
        ELSE Err("Invalid", id.maxread)

(***************************************************************************)
(* Input domains.                                                          *)
(***************************************************************************)
Peers == {"p1", "p2"}

Topics == {"t1", "t2"}

\* peer and rpc event of the request/response events and of send_rpc
RPCInputs == { <<"p1", "hello">>, <<"p2", "goodbye">> }

\* peer and topic of the subscribed / unsubscribed notifications
NoticeInputs == { <<"p1", "t1">>, <<"p2", "t2">> }

\* topic lists handed to publish
PublishTopicLists == { <<>>, <<"t1", "t2">>, <<"t2", "t2">> }

\* the messages the node publishes and its peers gossip
PubsubMessages == { Block(BeaconBlock(1)), AttestationMsg(Attestation(TRUE)) }

\* a listen_addrs list of n distinct addresses
AddrList(n) == [i \in 1..n |-> i]

AddrLens == {1} \cup (MAX_LISTEN_ADDRS..MaxAddrLen)

\* peer and number of addresses of the identify events: a short list from one
\* peer, lists of 20 addresses and more from the other
IdentifyInputs == { pn \in Peers \X AddrLens : (pn[1] = "p1") <=> (pn[2] < MAX_LISTEN_ADDRS) }

Retag(data, t) == u32_ssz_append(t) \o SubSeq(data, U32_BYTES + 1, Len(data))

\* gossip payloads: the valid encodings, each also with bytes appended, the
\* empty one, one cut inside the discriminant, one cut inside the payload, one
\* under an unused discriminant, and one whose payload its decoder rejects
BlockData ==
    LET blk == ssz_encode(Block(BeaconBlock(1)))
    IN  { blk, blk \o <<0, 0>>, <<>>, SubSeq(blk, 1, U32_BYTES - 1),
          SubSeq(blk, 1, U32_BYTES + 1), Retag(blk, 2) }

AttestationData ==
    LET att == ssz_encode(AttestationMsg(Attestation(TRUE)))
    IN  { att, att \o <<1>>, u32_ssz_append(ATTESTATION_ID) \o <<2>> }

\* source, topics and payload of the received gossip messages
GossipInputs ==
    { << "p1", <<"t1">>, d >> : d \in BlockData }
        \cup { << "p2", <<"t2", "t1">>, d >> : d \in AttestationData }

(***************************************************************************)
(* State.                                                                  *)
(***************************************************************************)
VARIABLES
    events,      \* Behaviour.events: the queue of BehaviourEvent
    before,      \* the queue as the last operation found it
    arg,         \* the event or arguments the last operation was given
    pushed,      \* the events the last operation passed to events.push, in order
    calls,       \* calls the last operation made on the collaborators, in order
    trace,       \* the pushes and collaborator calls of the last operation, in the order made
    logged,      \* log records the last operation wrote, in order
    ret,         \* what the last operation returned
    encodes,     \* number of ssz_encode calls the last operation made
    last,        \* name of the last operation
    enqueued,    \* history: every event passed to events.push, in order
    returned,    \* history: every event poll returned as Ready, in order
    registered,  \* history: <<peer, address>> pairs given to discovery
    c_msg,       \* codec: the message to encode
    c_bytes,     \* codec: the byte sequence
    c_index,     \* codec: the starting offset
    c_result,    \* codec: the result of ssz_decode
    c_rest,      \* codec: the messages encoded after c_msg and not yet decoded
    c_phase      \* codec: "idle", "input", "encoded", "decoded", "packed", "unpacked"

bvars == << events, before, arg, pushed, calls, trace, logged, ret, encodes, last, enqueued, returned, registered >>

cvars == << c_msg, c_bytes, c_index, c_result, c_rest, c_phase >>

vars == << events, before, arg, pushed, calls, trace, logged, ret, encodes, last, enqueued, returned, registered,
           c_msg, c_bytes, c_index, c_result, c_rest, c_phase >>

(***************************************************************************)
(* BehaviourEvent and the values poll and the other operations return.     *)
(***************************************************************************)
EvRPC(peer_id, rpc_event) == [type |-> "RPC", peer_id |-> peer_id, rpc_event |-> rpc_event]

EvPeerDialed(peer_id) == [type |-> "PeerDialed", peer_id |-> peer_id]

EvIdentified(peer_id, info) == [type |-> "Identified", peer_id |-> peer_id, info |-> info]

EvGossipMessage(source, topics, message) ==
    [type |-> "GossipMessage", source |-> source, topics |-> topics, message |-> message]

NoEvent == [type |-> "None"]

Ready(e) == [kind |-> "Ready", event |-> e]

NotReady == [kind |-> "NotReady", event |-> NoEvent]

Unit == [kind |-> "Unit", event |-> NoEvent]

Bool(b) == [kind |-> IF b THEN "true" ELSE "false", event |-> NoEvent]

Panic == [kind |-> "Panic", event |-> NoEvent]

\* one step of an operation: a call on a collaborator, or an events.push
StepCall(c) == [step |-> "call", what |-> c]

StepPush(e) == [step |-> "push", what |-> e]

\* what one operation does: the queue after it, the events it pushed, the
\* collaborator calls it made, the log records it wrote, the value it returned,
\* and the number of times it ran ssz_encode; trace holds the calls and the
\* pushes in one sequence (an operation that does both states their order)
Effect(evs, pu, cs, lg, r) ==
    [events |-> evs, pushed |-> pu, calls |-> cs, logged |-> lg, ret |-> r,
     encodes |-> 0,
     trace |-> [i \in 1..Len(cs) |-> StepCall(cs[i])]
                 \o [i \in 1..Len(pu) |-> StepPush(pu[i])]]

(***************************************************************************)
(* Vec<T> operations the code uses.                                        *)
(***************************************************************************)
\* Vec::truncate(len): keeps the first len elements, no effect if len >= v.len()
Vec_truncate(v, len) == IF len < Len(v) THEN SubSeq(v, 1, len) ELSE v

\* Vec::remove(index): the element and the vector with the rest shifted left;
\* panics if index is out of bounds
Vec_remove(v, index) ==
    IF index < Len(v)
    THEN [panic |-> FALSE, item |-> v[index + 1],
          rest |-> SubSeq(v, 1, index) \o SubSeq(v, index + 2, Len(v))]
    ELSE [panic |-> TRUE, item |-> NoEvent, rest |-> v]

(***************************************************************************)
(* Calls on the collaborators.                                             *)
(***************************************************************************)
CallAddConnectedAddress(peer_id, address) ==
    [fn |-> "discovery.add_connected_address", peer_id |-> peer_id, address |-> address]

CallGossipPublish(topic, data) == [fn |-> "gossipsub.publish", topic |-> topic, data |-> data]

\* result is what the call returned
CallGossipSubscribe(topic, result) ==
    [fn |-> "gossipsub.subscribe", topic |-> topic, result |-> result]

CallSendRpc(peer_id, rpc_event) ==
    [fn |-> "serenity_rpc.send_rpc", peer_id |-> peer_id, rpc_event |-> rpc_event]

(***************************************************************************)
(* Events the collaborators inject.                                        *)
(***************************************************************************)
GossipsubMessage(source, topics, data) ==
    [type |-> "Message", source |-> source, topics |-> topics, data |-> data]

GossipsubNotice(type, peer_id, topic) == [type |-> type, peer_id |-> peer_id, topic |-> topic]

RPCPeerDialed(peer_id) == [type |-> "PeerDialed", peer_id |-> peer_id]

RPCMessageRPC(peer_id, rpc_event) ==
    [type |-> "RPC", peer_id |-> peer_id, rpc_event |-> rpc_event]

IdentifyInfo(listen_addrs) == [listen_addrs |-> listen_addrs]

IdentifyIdentified(peer_id, info) == [type |-> "Identified", peer_id |-> peer_id, info |-> info]

IdentifyOther(type) == [type |-> type]

(***************************************************************************)
(* The handlers and operations of Behaviour, each as the Effect it has on  *)
(* the queue evs.                                                          *)
(***************************************************************************)
\* the gossip handler forwarding the message even when it does not decode
inject_event_gossipsub_PushOnError(evs, event) ==
    IF event.type = "Message"
    THEN LET decoded == PubsubMessage_ssz_decode(event.data, 0)
             e == EvGossipMessage(event.source, event.topics, decoded.value)
         IN  Effect(Append(evs, e), <<e>>, <<>>,
                    IF decoded.ok THEN <<"trace">> ELSE <<"trace", "warn">>, Unit)
    ELSE Effect(evs, <<>>, <<>>, <<>>, Unit)

\* the gossip handler unwrapping the decode result
inject_event_gossipsub_Unwrap(evs, event) ==
    IF event.type = "Message"
    THEN LET decoded == PubsubMessage_ssz_decode(event.data, 0)
         IN  IF ~decoded.ok
             THEN Effect(evs, <<>>, <<>>, <<"trace">>, Panic)
             ELSE LET e == EvGossipMessage(event.source, event.topics, decoded.value)
                  IN  Effect(Append(evs, e), <<e>>, <<>>, <<"trace">>, Unit)
    ELSE Effect(evs, <<>>, <<>>, <<>>, Unit)

\* the gossip handler rejecting a payload the decoder did not consume to its end
inject_event_gossipsub_Strict(evs, event) ==
    IF event.type = "Message"
    THEN LET decoded == PubsubMessage_ssz_decode(event.data, 0)
         IN  IF ~decoded.ok \/ decoded.index # Len(event.data)
             THEN Effect(evs, <<>>, <<>>, <<"trace", "warn">>, Unit)
             ELSE LET e == EvGossipMessage(event.source, event.topics, decoded.value)
                  IN  Effect(Append(evs, e), <<e>>, <<>>, <<"trace">>, Unit)
    ELSE Effect(evs, <<>>, <<>>, <<>>, Unit)

\* the gossip handler forwarding only the first topic of the message
inject_event_gossipsub_FirstTopic(evs, event) ==
    IF event.type = "Message"
    THEN LET decoded == PubsubMessage_ssz_decode(event.data, 0)
         IN  IF ~decoded.ok
             THEN Effect(evs, <<>>, <<>>, <<"trace", "warn">>, Unit)
             ELSE LET e == EvGossipMessage(event.source, SubSeq(event.topics, 1, 1),
                                           decoded.value)
                  IN  Effect(Append(evs, e), <<e>>, <<>>, <<"trace">>, Unit)
    ELSE Effect(evs, <<>>, <<>>, <<>>, Unit)

\* NetworkBehaviourEventProcess<GossipsubEvent>::inject_event
inject_event_gossipsub(evs, event) ==
    IF event.type = "Message"
    THEN LET decoded == PubsubMessage_ssz_decode(event.data, 0)
         IN  IF ~decoded.ok
             THEN Effect(evs, <<>>, <<>>, <<"trace", "warn">>, Unit)
             ELSE LET e == EvGossipMessage(event.source, event.topics, decoded.value)
                  IN  Effect(Append(evs, e), <<e>>, <<>>, <<"trace">>, Unit)
    ELSE Effect(evs, <<>>, <<>>, <<>>, Unit)

\* the request/response handler keeping at most two events: the oldest is evicted
inject_event_rpc_Evict(evs, event) ==
    LET e == IF event.type = "PeerDialed"
             THEN EvPeerDialed(event.peer_id)
             ELSE EvRPC(event.peer_id, event.rpc_event)
    IN  Effect(IF Len(evs) >= 2 THEN Append(Tail(evs), e) ELSE Append(evs, e),
               <<e>>, <<>>, <<>>, Unit)

\* the request/response handler reporting every event as a dialed peer
inject_event_rpc_DialedOnly(evs, event) ==
    LET e == EvPeerDialed(event.peer_id)
    IN  Effect(Append(evs, e), <<e>>, <<>>, <<>>, Unit)

\* NetworkBehaviourEventProcess<RPCMessage>::inject_event
inject_event_rpc(evs, event) ==
    LET e == IF event.type = "PeerDialed"
             THEN EvPeerDialed(event.peer_id)
             ELSE EvRPC(event.peer_id, event.rpc_event)
    IN  Effect(Append(evs, e), <<e>>, <<>>, <<>>, Unit)

\* the identify handler registering the addresses before it truncates the list
inject_event_identify_RegisterAll(evs, event) ==
    IF event.type = "Identified"
    THEN LET over  == Len(event.info.listen_addrs) > MAX_LISTEN_ADDRS
             all   == event.info.listen_addrs
             addrs == IF over THEN Vec_truncate(all, MAX_LISTEN_ADDRS) ELSE all
             info  == [event.info EXCEPT !.listen_addrs = addrs]
             e     == EvIdentified(event.peer_id, info)
         IN  Effect(Append(evs, e), <<e>>,
                    [i \in 1..Len(all) |-> CallAddConnectedAddress(event.peer_id, all[i])],
                    IF over THEN <<"debug", "trace">> ELSE <<"trace">>,
                    Unit)
    ELSE Effect(evs, <<>>, <<>>, <<>>, Unit)

\* the identify handler without the truncation of the address list
inject_event_identify_NoTruncate(evs, event) ==
    IF event.type = "Identified"
    THEN LET addrs == event.info.listen_addrs
             e     == EvIdentified(event.peer_id, event.info)
         IN  Effect(Append(evs, e), <<e>>,
                    [i \in 1..Len(addrs) |-> CallAddConnectedAddress(event.peer_id, addrs[i])],
                    <<"trace">>, Unit)
    ELSE Effect(evs, <<>>, <<>>, <<>>, Unit)

\* the identify handler pushing the Identified event before it registers the
\* addresses
inject_event_identify_PushFirst(evs, event) ==
    IF event.type = "Identified"
    THEN LET over  == Len(event.info.listen_addrs) > MAX_LISTEN_ADDRS
             addrs == IF over
                      THEN Vec_truncate(event.info.listen_addrs, MAX_LISTEN_ADDRS)
                      ELSE event.info.listen_addrs
             info  == [event.info EXCEPT !.listen_addrs = addrs]
             e     == EvIdentified(event.peer_id, info)
             regs  == [i \in 1..Len(addrs) |->
                          CallAddConnectedAddress(event.peer_id, addrs[i])]
         IN  [ Effect(Append(evs, e), <<e>>, regs,
                      IF over THEN <<"debug", "trace">> ELSE <<"trace">>,
                      Unit)
               EXCEPT !.trace = << StepPush(e) >>
                                  \o [i \in 1..Len(regs) |-> StepCall(regs[i])] ]
    ELSE Effect(evs, <<>>, <<>>, <<>>, Unit)

\* NetworkBehaviourEventProcess<IdentifyEvent>::inject_event: the truncation,
\* then the loop of add_connected_address calls, then the push
inject_event_identify(evs, event) ==
    IF event.type = "Identified"
    THEN LET over  == Len(event.info.listen_addrs) > MAX_LISTEN_ADDRS
             addrs == IF over
                      THEN Vec_truncate(event.info.listen_addrs, MAX_LISTEN_ADDRS)
                      ELSE event.info.listen_addrs
             info  == [event.info EXCEPT !.listen_addrs = addrs]
             e     == EvIdentified(event.peer_id, info)
             regs  == [i \in 1..Len(addrs) |->
                          CallAddConnectedAddress(event.peer_id, addrs[i])]
         IN  [ Effect(Append(evs, e), <<e>>, regs,
                      IF over THEN <<"debug", "trace">> ELSE <<"trace">>,
                      Unit)
               EXCEPT !.trace = [i \in 1..Len(regs) |-> StepCall(regs[i])]
                                  \o << StepPush(e) >> ]
    ELSE Effect(evs, <<>>, <<>>, <<>>, Unit)

\* NetworkBehaviourEventProcess<PingEvent>::inject_event
inject_event_ping(evs, event) == Effect(evs, <<>>, <<>>, <<>>, Unit)

\* the discovery handler registering an address for every discovery result
inject_event_kademlia_Register(evs, out) ==
    Effect(evs, <<>>, << CallAddConnectedAddress("p1", 1) >>, <<>>, Unit)

\* NetworkBehaviourEventProcess<KademliaOut>::inject_event
inject_event_kademlia(evs, out) == Effect(evs, <<>>, <<>>, <<>>, Unit)

\* poll taking the newest event (Vec::pop) instead of the oldest
poll_PopBack(evs) ==
    IF evs # <<>>
    THEN Effect(SubSeq(evs, 1, Len(evs) - 1), <<>>, <<>>, <<>>, Ready(evs[Len(evs)]))
    ELSE Effect(evs, <<>>, <<>>, <<>>, NotReady)

\* poll returning the head without removing it
poll_Peek(evs) ==
    IF evs # <<>>
    THEN Effect(evs, <<>>, <<>>, <<>>, Ready(evs[1]))
    ELSE Effect(evs, <<>>, <<>>, <<>>, NotReady)

\* poll handing out an event only while another one waits behind it
poll_WaitForTwo(evs) ==
    IF Len(evs) >= 2
    THEN Effect(Tail(evs), <<>>, <<>>, <<>>, Ready(Head(evs)))
    ELSE Effect(evs, <<>>, <<>>, <<>>, NotReady)

\* Behaviour::poll
poll(evs) ==
    IF evs # <<>>
    THEN LET r == Vec_remove(evs, 0)
         IN  IF r.panic
             THEN Effect(evs, <<>>, <<>>, <<>>, Panic)
             ELSE Effect(r.rest, <<>>, <<>>, <<>>, Ready(r.item))
    ELSE Effect(evs, <<>>, <<>>, <<>>, NotReady)

\* subscribe reporting a new subscription whatever gossipsub.subscribe returns
subscribe_AlwaysTrue(evs, topic, answer) ==
    Effect(evs, <<>>, << CallGossipSubscribe(topic, answer) >>, <<>>, Bool(TRUE))

\* Behaviour::subscribe; answer is what gossipsub.subscribe returns
subscribe(evs, topic, answer) ==
    Effect(evs, <<>>, << CallGossipSubscribe(topic, answer) >>, <<>>, Bool(answer))

\* Behaviour::send_rpc
send_rpc(evs, peer_id, rpc_event) ==
    Effect(evs, <<>>, << CallSendRpc(peer_id, rpc_event) >>, <<>>, Unit)

\* the topics of a list without the repetitions, in order of first occurrence
Dedup(topics) ==
    LET firsts == { i \in DOMAIN topics : \A j \in 1..(i - 1) : topics[j] # topics[i] }
        pick[k \in 0..Len(topics)] ==
            IF k = 0 THEN <<>>
            ELSE IF k \in firsts THEN Append(pick[k - 1], topics[k]) ELSE pick[k - 1]
    IN  pick[Len(topics)]

\* publish sending once per distinct topic
publish_Dedup(evs, topics, message) ==
    LET message_bytes == ssz_encode(message)
        ts == Dedup(topics)
    IN  [ Effect(evs, <<>>,
                 [i \in 1..Len(ts) |-> CallGossipPublish(ts[i], message_bytes)],
                 <<>>, Unit) EXCEPT !.encodes = 1 ]

\* Behaviour::publish
publish(evs, topics, message) ==
    LET message_bytes == ssz_encode(message)
    IN  [ Effect(evs, <<>>,
                 [i \in 1..Len(topics) |-> CallGossipPublish(topics[i], message_bytes)],
                 <<>>, Unit) EXCEPT !.encodes = 1 ]

(***************************************************************************)
(* The behaviour as a state machine: the swarm calls one handler or        *)
(* operation at a time (&mut self).                                        *)
(***************************************************************************)
NoResult == [ok |-> FALSE, value |-> NoValue, index |-> 0, err |-> "NotRun", maxread |-> 0]

NoMsg == [variant |-> "None"]

CodecIdle ==
    /\ c_msg = NoMsg
    /\ c_bytes = <<>>
    /\ c_index = 0
    /\ c_result = NoResult
    /\ c_rest = <<>>
    /\ c_phase = "idle"

\* Behaviour::new: events: Vec::new()
BehaviourNew ==
    /\ events = <<>>
    /\ before = <<>>
    /\ arg = [type |-> "None"]
    /\ pushed = <<>>
    /\ calls = <<>>
    /\ trace = <<>>
    /\ logged = <<>>
    /\ ret = Unit
    /\ encodes = 0
    /\ last = [op |-> "new", type |-> "-"]
    /\ enqueued = <<>>
    /\ returned = <<>>
    /\ registered = {}

Init == BehaviourNew /\ CodecIdle

Registrations(cs) ==
    { << cs[i].peer_id, cs[i].address >> :
        i \in { j \in DOMAIN cs : cs[j].fn = "discovery.add_connected_address" } }

\* one call of handler or operation op, given input, with effect eff
Apply(op, type, input, eff) ==
    /\ ret.kind # "Panic"
    /\ events' = eff.events
    /\ before' = events
    /\ arg' = input
    /\ pushed' = eff.pushed
    /\ calls' = eff.calls
    /\ trace' = eff.trace
    /\ logged' = eff.logged
    /\ ret' = eff.ret
    /\ encodes' = eff.encodes
    /\ last' = [op |-> op, type |-> type]
    /\ enqueued' = enqueued \o eff.pushed
    /\ returned' = IF eff.ret.kind = "Ready" THEN Append(returned, eff.ret.event) ELSE returned
    /\ registered' = registered \cup Registrations(eff.calls)
    /\ UNCHANGED cvars

InjectGossipMessage(source, topics, data) ==
    LET event == GossipsubMessage(source, topics, data)
    IN  Apply("inject_event_gossipsub", "Message", event, inject_event_gossipsub(events, event))

InjectGossipNotice(type, peer_id, topic) ==
    LET event == GossipsubNotice(type, peer_id, topic)
    IN  Apply("inject_event_gossipsub", type, event, inject_event_gossipsub(events, event))

InjectPeerDialed(peer_id) ==
    LET event == RPCPeerDialed(peer_id)
    IN  Apply("inject_event_rpc", "PeerDialed", event, inject_event_rpc(events, event))

InjectRPC(peer_id, rpc_event) ==
    LET event == RPCMessageRPC(peer_id, rpc_event)
    IN  Apply("inject_event_rpc", "RPC", event, inject_event_rpc(events, event))

InjectIdentified(peer_id, listen_addrs) ==
    LET event == IdentifyIdentified(peer_id, IdentifyInfo(listen_addrs))
    IN  Apply("inject_event_identify", "Identified", event,
              inject_event_identify(events, event))

InjectIdentifyOther(type) ==
    LET event == IdentifyOther(type)
    IN  Apply("inject_event_identify", type, event, inject_event_identify(events, event))

InjectPing ==
    Apply("inject_event_ping", "-", [type |-> "Ping"],
          inject_event_ping(events, [type |-> "Ping"]))

InjectKademlia ==
    Apply("inject_event_kademlia", "-", [type |-> "KademliaOut"],
          inject_event_kademlia(events, [type |-> "KademliaOut"]))

Poll == Apply("poll", "-", [type |-> "None"], poll(events))

Subscribe(topic, answer) ==
    Apply("subscribe", "-", [topic |-> topic], subscribe(events, topic, answer))

SendRpc(peer_id, rpc_event) ==
    Apply("send_rpc", "-", [peer_id |-> peer_id, rpc_event |-> rpc_event],
          send_rpc(events, peer_id, rpc_event))

Publish(topics, message) ==
    Apply("publish", "-", [topics |-> topics, message |-> message],
          publish(events, topics, message))

\* action A, taken only while the run stays within n enqueued events
Bounded(n, A) == A /\ Len(enqueued') <= n

Next ==
    \/ \E g \in GossipInputs : Bounded(MaxEnqueued, InjectGossipMessage(g[1], g[2], g[3]))
    \/ \E ty \in {"Subscribed", "Unsubscribed"}, n \in NoticeInputs :
           InjectGossipNotice(ty, n[1], n[2])
    \/ \E p \in Peers : Bounded(MaxEnqueued, InjectPeerDialed(p))
    \/ \E r \in RPCInputs : Bounded(MaxEnqueued, InjectRPC(r[1], r[2]))
    \/ \E pn \in IdentifyInputs :
           Bounded(MaxEnqueued, InjectIdentified(pn[1], AddrList(pn[2])))
    \/ \E ty \in {"Error", "SendBack"} : InjectIdentifyOther(ty)
    \/ InjectPing
    \/ InjectKademlia
    \/ Poll
    \/ \E t \in Topics, a \in BOOLEAN : Subscribe(t, a)
    \/ \E r \in RPCInputs : SendRpc(r[1], r[2])
    \/ \E ts \in PublishTopicLists, m \in PubsubMessages : Publish(ts, m)

Spec == Init /\ [][Next]_vars

(***************************************************************************)
(* The queue discipline on longer runs: the same handlers and poll, each   *)
(* collaborator injecting one of a few events.                             *)
(***************************************************************************)
NextQueue ==
    \/ \E g \in { h \in GossipInputs : Len(h[3]) \in {0, U32_BYTES + 1} } :
           Bounded(MaxQueueRun, InjectGossipMessage(g[1], g[2], g[3]))
    \/ Bounded(MaxQueueRun, InjectPeerDialed("p1"))
    \/ Bounded(MaxQueueRun, InjectRPC("p2", "goodbye"))
    \/ \E pn \in { qn \in IdentifyInputs : qn[2] \in {1, MaxAddrLen} } :
           Bounded(MaxQueueRun, InjectIdentified(pn[1], AddrList(pn[2])))
    \/ InjectPing
    \/ Poll

SpecQueue == Init /\ [][NextQueue]_vars

\* the same runs under a driver that keeps calling poll: the swarm polls the
\* behaviour again whenever it has returned an event, and the handlers enqueue
\* at most MaxQueueRun events in all
SpecLive == Init /\ [][NextQueue]_vars /\ WF_vars(Poll)

(***************************************************************************)
(* The codec on its own: encode a message, decode a byte sequence from an  *)
(* offset, or decode what was just encoded (test::ssz_encoding).           *)
(***************************************************************************)
\* payloads of the messages to encode
BlockSlots == {0, 1, 255, 256, 65535}

CodecMessages ==
    { Block(BeaconBlock(s)) : s \in BlockSlots }
        \cup { AttestationMsg(Attestation(b)) : b \in BOOLEAN }

\* byte values of the sequences to decode
CodecBytes == {0, 1, 2}

ByteSeqs(n) == UNION { [1..k -> CodecBytes] : k \in 0..n }

InitCodec ==
    /\ BehaviourNew
    /\ c_result = NoResult
    /\ c_rest = <<>>
    /\ c_phase = "input"
    /\ \/ /\ c_msg \in CodecMessages
          /\ c_bytes = <<>>
          /\ c_index = 0
       \/ /\ c_msg = NoMsg
          /\ c_bytes \in ByteSeqs(MaxBytesLen)
          /\ c_index \in 0..MaxIndex

\* let encoded = ssz_encode(&original)
Encode ==
    /\ c_phase = "input"
    /\ c_msg # NoMsg
    /\ c_bytes' = ssz_encode(c_msg)
    /\ c_phase' = "encoded"
    /\ UNCHANGED << c_msg, c_index, c_result, c_rest >>
    /\ UNCHANGED bvars

\* PubsubMessage::ssz_decode(&bytes, index)
Decode ==
    /\ \/ c_phase = "encoded"
       \/ c_phase = "input" /\ c_msg = NoMsg
    /\ c_result' = PubsubMessage_ssz_decode(c_bytes, c_index)
    /\ c_phase' = "decoded"
    /\ UNCHANGED << c_msg, c_bytes, c_index, c_rest >>
    /\ UNCHANGED bvars

\* the messages a stream may hold after the first
MessageSeqs(n) == UNION { [1..k -> PubsubMessages] : k \in 0..n }

\* ssz_append of each message of ms in turn, on one stream
RECURSIVE AppendAll(_)
AppendAll(ms) ==
    IF ms = <<>> THEN <<>> ELSE PubsubMessage_ssz_append(Head(ms)) \o AppendAll(Tail(ms))

\* c_msg and the messages of rest appended one after another to a stream that
\* already holds the bytes pre, and the bytes post appended after them
Pack ==
    /\ c_phase = "input"
    /\ c_msg # NoMsg
    /\ \E pre \in ByteSeqs(MaxIndex), rest \in MessageSeqs(MaxPacked - 1),
          post \in { <<>>, <<2>> } :
           /\ c_bytes' = pre \o AppendAll(<< c_msg >> \o rest) \o post
           /\ c_index' = Len(pre)
           /\ c_rest' = rest
    /\ c_phase' = "packed"
    /\ UNCHANGED << c_msg, c_result >>
    /\ UNCHANGED bvars

\* PubsubMessage::ssz_decode(&bytes, index) at the offset of the first message
Unpack ==
    /\ c_phase = "packed"
    /\ c_result' = PubsubMessage_ssz_decode(c_bytes, c_index)
    /\ c_phase' = "unpacked"
    /\ UNCHANGED << c_msg, c_bytes, c_index, c_rest >>
    /\ UNCHANGED bvars

\* PubsubMessage::ssz_decode(&bytes, index) at the offset the last decode
\* returned, for the next message of the stream
UnpackNext ==
    /\ c_phase = "unpacked"
    /\ c_result.ok
    /\ c_rest # <<>>
    /\ c_msg' = Head(c_rest)
    /\ c_rest' = Tail(c_rest)
    /\ c_index' = c_result.index
    /\ c_result' = PubsubMessage_ssz_decode(c_bytes, c_result.index)
    /\ UNCHANGED << c_bytes, c_phase >>
    /\ UNCHANGED bvars

NextCodec == Encode \/ Decode \/ Pack \/ Unpack \/ UnpackNext

SpecCodec == InitCodec /\ [][NextCodec]_vars

(***************************************************************************)
(* Properties.                                                             *)
(***************************************************************************)

\* C1: FIFO ordering. The events poll has returned as Ready, in the order
\* of the poll calls, are the first events the handlers enqueued, in the
\* order they were enqueued: nothing is reordered, merged or preferred.
C1_FifoOrder ==
    /\ Len(returned) <= Len(enqueued)
    /\ returned = SubSeq(enqueued, 1, Len(returned))

\* three events of three collaborators have been polled and the queue is drained
C1_Witness ==
    /\ Len(returned) = 3
    /\ returned[1].type = "GossipMessage"
    /\ returned[2].type = "PeerDialed"
    /\ returned[3].type = "Identified"
    /\ events = <<>>

\* C2: poll on a non-empty queue returns Ready with the head and removes
\* exactly that event, the rest keeping its order; poll on an empty queue
\* returns NotReady and leaves the queue empty.
C2_PollContract ==
    (last.op = "poll") =>
        IF before # <<>>
        THEN /\ ret = Ready(Head(before))
             /\ events = Tail(before)
        ELSE /\ ret = NotReady
             /\ events = <<>>

\* a poll has just returned the head of a queue of three
C2_Witness ==
    /\ last.op = "poll"
    /\ ret.kind = "Ready"
    /\ Len(before) = 3
    /\ events[1] # events[2]
    /\ ret.event # events[1]

\* C3: malformed-gossip containment. A gossip Message whose payload does not
\* decode from offset 0 leaves the queue exactly as it was, enqueues nothing
\* and makes no call on a collaborator, so the events queued before it keep
\* their place and those queued after it follow them.
C3_MalformedGossipContained ==
    ( /\ last = [op |-> "inject_event_gossipsub", type |-> "Message"]
      /\ ~PubsubMessage_ssz_decode(arg.data, 0).ok )
    => /\ events = before
       /\ pushed = <<>>
       /\ calls = <<>>
       /\ returned \o events = enqueued

\* an undecodable gossip message has just been handled while two events
\* queued before it are still waiting
C3_Witness ==
    /\ last = [op |-> "inject_event_gossipsub", type |-> "Message"]
    /\ arg.data = <<>>
    /\ Len(events) = 2
    /\ enqueued = events

\* C4: address truncation. An Identified event of peer p with n addresses
\* enqueues exactly one Identified(p, info) whose addresses are the first
\* min(n, 20) of the input in their order, and makes exactly min(n, 20)
\* add_connected_address calls, one per surviving address, each with peer p.
C4_AddressTruncation ==
    (last = [op |-> "inject_event_identify", type |-> "Identified"]) =>
        LET p    == arg.peer_id
            n    == Len(arg.info.listen_addrs)
            m    == IF n < 20 THEN n ELSE 20
            kept == SubSeq(arg.info.listen_addrs, 1, m)
        IN  /\ events = Append(before, EvIdentified(p, IdentifyInfo(kept)))
            /\ pushed = << EvIdentified(p, IdentifyInfo(kept)) >>
            /\ Len(calls) = m
            /\ \A i \in 1..Len(calls) :
                   /\ calls[i].fn = "discovery.add_connected_address"
                   /\ calls[i].peer_id = p
            /\ \A k \in 1..m :
                   Cardinality({ i \in 1..Len(calls) : calls[i].address = kept[k] }) = 1

\* an identify event with more than 20 addresses has just been handled
C4_Witness ==
    /\ last = [op |-> "inject_event_identify", type |-> "Identified"]
    /\ Len(arg.info.listen_addrs) > 20
    /\ Len(calls) = 20
    /\ Len(events[Len(events)].info.listen_addrs) = 20

\* C5: publish fan-out. publish(topics, message) encodes the message once
\* and makes one gossipsub.publish call per element of topics, in the order of
\* topics, each carrying the same encoding of message.
C5_PublishFanOut ==
    (last.op = "publish") =>
        /\ encodes = 1
        /\ Len(calls) = Len(arg.topics)
        /\ \A i \in 1..Len(arg.topics) :
               /\ calls[i].fn = "gossipsub.publish"
               /\ calls[i].topic = arg.topics[i]
               /\ calls[i].data = ssz_encode(arg.message)
        /\ \A i, j \in 1..Len(calls) : calls[i].data = calls[j].data

\* a message has just been published on a list that names one topic twice
C5_Witness ==
    /\ last.op = "publish"
    /\ arg.topics = <<"t2", "t2">>
    /\ Len(calls) = 2
    /\ calls[1].data = calls[2].data
    /\ encodes = 1

\* C6: round trip. Decoding the encoding of a message from offset 0 succeeds
\* and yields the message: same variant, equal payload.
C6_RoundTrip ==
    (c_phase = "decoded" /\ c_msg # NoMsg) =>
        /\ c_result.ok
        /\ c_result.value.variant = c_msg.variant
        /\ c_result.value.payload = c_msg.payload

\* an attestation has been encoded and decoded back
C6_Witness ==
    /\ c_phase = "decoded"
    /\ c_msg = AttestationMsg(Attestation(FALSE))
    /\ c_result.ok

\* C7: wire format. The encoding is a 4-byte unsigned discriminant, 0 for
\* Block and 1 for Attestation, followed at once by the payload's encoding.
C7_WireFormat ==
    (c_phase = "encoded") =>
        LET tag == u32_ssz_decode(c_bytes, 0)
        IN  /\ tag.ok
            /\ tag.value = (IF c_msg.variant = "Block" THEN 0 ELSE 1)
            /\ SubSeq(c_bytes, 5, Len(c_bytes)) =
                 (IF c_msg.variant = "Block"
                  THEN BeaconBlock_ssz_append(c_msg.payload)
                  ELSE Attestation_ssz_append(c_msg.payload))

\* an attestation has been encoded
C7_Witness ==
    /\ c_phase = "encoded"
    /\ c_msg.variant = "Attestation"
    /\ Len(c_bytes) = 5

\* the discriminant of a byte sequence at an offset, if at least 4 bytes follow
TagAt(bytes, index) ==
    bytes[index + 1] + 256 * bytes[index + 2] + 65536 * bytes[index + 3]
        + 16777216 * bytes[index + 4]

\* C8: invalid-tag rejection. Decoding an input with at least 4 bytes whose
\* discriminant is neither 0 nor 1 fails with DecodeError::Invalid whatever
\* follows, and looks at no byte after the discriminant.
C8_InvalidTagRejected ==
    ( /\ c_phase = "decoded"
      /\ c_msg = NoMsg
      /\ Len(c_bytes) >= c_index + 4
      /\ TagAt(c_bytes, c_index) \notin {0, 1} )
    => /\ ~c_result.ok
       /\ c_result.err = "Invalid"
       /\ c_result.value = NoValue
       /\ c_result.maxread <= c_index + 4

\* an input with discriminant 2 and two more bytes has been decoded
C8_Witness ==
    /\ c_phase = "decoded"
    /\ c_bytes = <<2, 0, 0, 0, 1, 1>>
    /\ c_index = 0
    /\ c_result.err = "Invalid"

\* C9: truncated-input rejection. Decoding fails when fewer than 4 bytes are
\* left for the discriminant, and fails with the payload decoder's error when
\* the discriminant is 0 or 1 and the payload decoder rejects what follows; no
\* value is returned and no byte past the end of the input is looked at.
C9_TruncatedRejected ==
    (c_phase = "decoded" /\ c_msg = NoMsg) =>
        /\ c_result.maxread <= Len(c_bytes)
        /\ (Len(c_bytes) < c_index + 4) =>
               (~c_result.ok /\ c_result.value = NoValue)
        /\ (Len(c_bytes) >= c_index + 4 /\ TagAt(c_bytes, c_index) = 0
              /\ ~BeaconBlock_ssz_decode(c_bytes, c_index + 4).ok) =>
               /\ ~c_result.ok
               /\ c_result.value = NoValue
               /\ c_result.err = BeaconBlock_ssz_decode(c_bytes, c_index + 4).err
        /\ (Len(c_bytes) >= c_index + 4 /\ TagAt(c_bytes, c_index) = 1
              /\ ~Attestation_ssz_decode(c_bytes, c_index + 4).ok) =>
               /\ ~c_result.ok
               /\ c_result.value = NoValue
               /\ c_result.err = Attestation_ssz_decode(c_bytes, c_index + 4).err

\* a block cut off inside its payload has been decoded
C9_Witness ==
    /\ c_phase = "decoded"
    /\ c_bytes = <<0, 0, 0, 0, 1>>
    /\ c_index = 0
    /\ ~c_result.ok
    /\ c_result.err = "TooShort"

\* C10: never fails the loop. No handler or operation ends in an error or a
\* panic: every handler returns unit, and poll returns Ready or NotReady.
C10_NeverFails ==
    /\ ret.kind \in {"Unit", "Ready", "NotReady", "true", "false"}
    /\ (last.op = "poll") => ret.kind \in {"Ready", "NotReady"}
    /\ (last.op \in {"inject_event_gossipsub", "inject_event_rpc", "inject_event_identify",
                     "inject_event_ping", "inject_event_kademlia"}) => ret = Unit

\* a poll has returned an event after an undecodable gossip message, and an
\* identify error is the last thing handled
C10_Witness ==
    /\ last = [op |-> "inject_event_identify", type |-> "Error"]
    /\ ret = Unit
    /\ Len(returned) = 1
    /\ Len(enqueued) = 2

\* C11: no dropped or duplicated events. The events poll has returned
\* followed by the queue are, in every state, the events enqueued so far; an
\* operation leaves the queue as it found it plus what it pushed at the tail,
\* unless it is a poll that returns the head it removed.
C11_NoDropNoDuplicate ==
    /\ returned \o events = enqueued
    /\ Len(returned) + Len(events) = Len(enqueued)
    /\ (events # before \o pushed) =>
           /\ last.op = "poll"
           /\ before # <<>>
           /\ ret = Ready(Head(before))
           /\ events = Tail(before)

\* a request/response event has been enqueued behind two waiting events, after
\* nothing has been polled yet
C11_Witness ==
    /\ last.op = "inject_event_rpc"
    /\ Len(before) = 2
    /\ Len(events) = 3
    /\ returned = <<>>

\* C12: gossip success path. A gossip Message whose payload decodes from
\* offset 0 appends exactly one GossipMessage to the tail of the queue, with
\* the source and the topics of the received message, in their order, and the
\* decoded PubsubMessage (the message itself when the payload is its
\* encoding); the events already queued are left as they were.
C12_GossipSuccessPath ==
    ( /\ last = [op |-> "inject_event_gossipsub", type |-> "Message"]
      /\ PubsubMessage_ssz_decode(arg.data, 0).ok )
    => LET e == EvGossipMessage(arg.source, arg.topics,
                                PubsubMessage_ssz_decode(arg.data, 0).value)
       IN  /\ events = Append(before, e)
           /\ pushed = << e >>
           /\ SubSeq(events, 1, Len(before)) = before
           /\ \A m \in PubsubMessages :
                  (arg.data = ssz_encode(m)) => events[Len(events)].message = m

\* an attestation gossiped on two topics has been enqueued behind a waiting event
C12_Witness ==
    /\ last = [op |-> "inject_event_gossipsub", type |-> "Message"]
    /\ arg.topics = <<"t2", "t1">>
    /\ arg.data = ssz_encode(AttestationMsg(Attestation(TRUE)))
    /\ Len(before) = 1
    /\ Len(events) = 2
    /\ events[2].type = "GossipMessage"
    /\ events[2].topics = <<"t2", "t1">>

\* C13: request/response passthrough. A PeerDialed(p) event appends exactly
\* one PeerDialed(p) to the tail of the queue and an RPC(p, e) event exactly
\* one RPC(p, e), peer and event unchanged; the handler calls no collaborator
\* and leaves the events already queued as they were.
C13_RpcPassthrough ==
    (last.op = "inject_event_rpc") =>
        /\ last.type \in {"PeerDialed", "RPC"}
        /\ (last.type = "PeerDialed") =>
               /\ events = Append(before, EvPeerDialed(arg.peer_id))
               /\ pushed = << EvPeerDialed(arg.peer_id) >>
        /\ (last.type = "RPC") =>
               /\ events = Append(before, EvRPC(arg.peer_id, arg.rpc_event))
               /\ pushed = << EvRPC(arg.peer_id, arg.rpc_event) >>
        /\ calls = <<>>
        /\ SubSeq(events, 1, Len(before)) = before

\* an RPC event of peer p2 has been enqueued behind a waiting event
C13_Witness ==
    /\ last = [op |-> "inject_event_rpc", type |-> "RPC"]
    /\ arg = RPCMessageRPC("p2", "goodbye")
    /\ Len(before) = 1
    /\ events[2] = EvRPC("p2", "goodbye")

\* C14: no-op handlers. A gossip Subscribed or Unsubscribed notification, an
\* identify Error or SendBack event, a ping event and a Kademlia event leave
\* the queue unchanged and make no call on a collaborator; discovery's
\* add_connected_address is called only while an identify Identified event is
\* handled.
C14_NoOpHandlers ==
    /\ ( \/ last.op = "inject_event_gossipsub" /\ last.type \in {"Subscribed", "Unsubscribed"}
         \/ last.op = "inject_event_identify" /\ last.type \in {"Error", "SendBack"}
         \/ last.op = "inject_event_ping"
         \/ last.op = "inject_event_kademlia" )
       => /\ events = before
          /\ pushed = <<>>
          /\ calls = <<>>
          /\ ret = Unit
    /\ (\E i \in DOMAIN calls : calls[i].fn = "discovery.add_connected_address")
       => last = [op |-> "inject_event_identify", type |-> "Identified"]

\* a Kademlia event has been handled while two events, one of them Identified,
\* wait in the queue
C14_Witness ==
    /\ last.op = "inject_event_kademlia"
    /\ Len(events) = 2
    /\ events[1].type = "Identified"
    /\ registered # {}

\* C15: outward operations do not touch the queue. subscribe, send_rpc and
\* publish leave the queue as it was; subscribe makes exactly one
\* gossipsub.subscribe call, with its topic, and returns what that call
\* returned; send_rpc makes exactly one serenity_rpc.send_rpc call with the
\* same peer and event and returns nothing.
C15_OutwardOpsFrame ==
    /\ (last.op \in {"subscribe", "send_rpc", "publish"}) =>
           /\ events = before
           /\ pushed = <<>>
    /\ (last.op = "subscribe") =>
           /\ Len(calls) = 1
           /\ calls[1].fn = "gossipsub.subscribe"
           /\ calls[1].topic = arg.topic
           /\ ret = Bool(calls[1].result)
    /\ (last.op = "send_rpc") =>
           /\ calls = << CallSendRpc(arg.peer_id, arg.rpc_event) >>
           /\ ret = Unit

\* subscribe has returned false, for a topic already subscribed, while two
\* events wait in the queue
C15_Witness ==
    /\ last.op = "subscribe"
    /\ ret.kind = "false"
    /\ calls[1].result = FALSE
    /\ Len(events) = 2

\* C16: bounded address list. Every Identified event in the queue, and every
\* Identified event poll has returned, carries at most 20 addresses.
C16_BoundedAddressList ==
    /\ \A i \in DOMAIN events :
           (events[i].type = "Identified") => Len(events[i].info.listen_addrs) <= 20
    /\ \A i \in DOMAIN returned :
           (returned[i].type = "Identified") => Len(returned[i].info.listen_addrs) <= 20

\* after two identify events with more than 20 addresses each, poll has
\* returned the first Identified event and the second waits in the queue
C16_Witness ==
    /\ last = [op |-> "inject_event_identify", type |-> "Identified"]
    /\ Len(arg.info.listen_addrs) > 20
    /\ Len(returned) = 1
    /\ returned[1].type = "Identified"
    /\ Len(returned[1].info.listen_addrs) = 20
    /\ Len(events) = 1
    /\ events[1].type = "Identified"
    /\ Len(events[1].info.listen_addrs) = 20

\* C17: registration precedes enqueue. Handling an identify Identified event
\* makes the add_connected_address calls for the surviving addresses, in the
\* order of the address list, and only then pushes the Identified event; so
\* every address of an Identified(p, info) event that poll has returned, or
\* that waits in the queue, has been registered with discovery for p.
C17_RegistrationPrecedesEnqueue ==
    /\ (last = [op |-> "inject_event_identify", type |-> "Identified"]) =>
           LET p    == arg.peer_id
               n    == Len(arg.info.listen_addrs)
               m    == IF n < 20 THEN n ELSE 20
               kept == SubSeq(arg.info.listen_addrs, 1, m)
           IN  /\ Len(trace) = m + 1
               /\ \A k \in 1..m :
                      /\ trace[k].step = "call"
                      /\ trace[k].what.fn = "discovery.add_connected_address"
                      /\ trace[k].what.peer_id = p
                      /\ trace[k].what.address = kept[k]
               /\ trace[m + 1].step = "push"
               /\ trace[m + 1].what = EvIdentified(p, IdentifyInfo(kept))
    /\ \A i \in DOMAIN returned :
           (returned[i].type = "Identified") =>
               \A k \in DOMAIN returned[i].info.listen_addrs :
                   << returned[i].peer_id, returned[i].info.listen_addrs[k] >> \in registered
    /\ \A i \in DOMAIN events :
           (events[i].type = "Identified") =>
               \A k \in DOMAIN events[i].info.listen_addrs :
                   << events[i].peer_id, events[i].info.listen_addrs[k] >> \in registered

\* poll has just returned an Identified event of 20 addresses, all of them
\* registered for its peer
C17_Witness ==
    /\ last.op = "poll"
    /\ ret.kind = "Ready"
    /\ ret.event.type = "Identified"
    /\ Len(ret.event.info.listen_addrs) = 20
    /\ Cardinality({ r \in registered : r[1] = ret.event.peer_id }) = 20

\* C18: offset-based decode. When the encoding of message m occupies
\* bytes[k .. k+len) of a byte sequence, decoding the sequence at offset k
\* returns m and the offset k+len; feeding each returned offset into the next
\* decode yields the messages encoded back to back, one after another.
C18_OffsetDecode ==
    ( /\ c_phase = "unpacked"
      /\ SubSeq(c_bytes, c_index + 1, c_index + Len(ssz_encode(c_msg))) = ssz_encode(c_msg) )
    => /\ c_result.ok
       /\ c_result.value = c_msg
       /\ c_result.index = c_index + Len(ssz_encode(c_msg))
       /\ (c_rest # <<>>) =>
              LET next == PubsubMessage_ssz_decode(c_bytes, c_result.index)
              IN  /\ next.ok
                  /\ next.value = Head(c_rest)
                  /\ next.index = c_result.index + Len(ssz_encode(Head(c_rest)))

\* an attestation encoded right after a block, behind one leading byte and
\* before one trailing byte, has been decoded at the offset the decode of the
\* block returned
C18_Witness ==
    /\ c_phase = "unpacked"
    /\ Len(c_bytes) = 13
    /\ c_index = 7
    /\ c_msg = AttestationMsg(Attestation(TRUE))
    /\ c_rest = <<>>
    /\ c_result.ok
    /\ c_result.index = 12

\* C19: eventual delivery. From the empty queue of construction, under a
\* driver that keeps calling poll and finitely many injected events, every
\* enqueued event is eventually returned by poll and the queue becomes and
\* stays empty, a poll from then on returning NotReady.
C19_EventualDelivery ==
    <>[]( /\ events = <<>>
          /\ returned = enqueued
          /\ (last.op = "poll") => ret = NotReady )

\* three enqueued events have all been returned and a further poll has found
\* the queue empty
C19_Witness ==
    /\ Len(enqueued) = 3
    /\ returned = enqueued
    /\ events = <<>>
    /\ last.op = "poll"
    /\ before = <<>>
    /\ ret = NotReady

\* C20: trailing bytes are accepted on receipt. A gossip payload made of the
\* encoding of a message m followed by extra bytes is not rejected: the
\* handler enqueues one GossipMessage carrying m, the queue ending as it would
\* have for the payload without the extra bytes, and logs no warning.
C20_TrailingBytesAccepted ==
    (last = [op |-> "inject_event_gossipsub", type |-> "Message"]) =>
        \A m \in PubsubMessages :
            ( /\ Len(arg.data) > Len(ssz_encode(m))
              /\ SubSeq(arg.data, 1, Len(ssz_encode(m))) = ssz_encode(m) )
            => /\ events = Append(before, EvGossipMessage(arg.source, arg.topics, m))
               /\ pushed = << EvGossipMessage(arg.source, arg.topics, m) >>
               /\ events = inject_event_gossipsub(before,
                               GossipsubMessage(arg.source, arg.topics, ssz_encode(m))).events
               /\ logged = <<"trace">>

\* the encoding of a block followed by two more bytes has been received and
\* the block enqueued behind the attestation of an earlier payload with one
\* byte appended
C20_Witness ==
    /\ last = [op |-> "inject_event_gossipsub", type |-> "Message"]
    /\ arg.data = ssz_encode(Block(BeaconBlock(1))) \o <<0, 0>>
    /\ Len(before) = 1
    /\ Len(events) = 2
    /\ events[1].message = AttestationMsg(Attestation(TRUE))
    /\ events[2].message = Block(BeaconBlock(1))

====
